---- MODULE Spec2Model ----
(***************************************************************************)
(* CustomerDataExtractor (src/data_loader.py): the tolerant flattening of  *)
(* customer -> order -> item records into rows and skip records.           *)
(*                                                                         *)
(* Conventions of the model                                                *)
(*  - a raw (pickled) value is a record [t, n, s]: t is its Python type,   *)
(*    n its number, s its text as a sequence of one-character strings;     *)
(*    "absent" is a key the mapping does not hold;                         *)
(*  - a float is held exactly, in thousandths (n = 10004 is 10.004); the   *)
(*    float NaN is the type "nan";                                         *)
(*  - two-decimal outputs (unit_price, total_item_price) are in hundredths,*)
(*    total_order_value_percentage in hundredths of a percent;             *)
(*  - a timestamp is its year.                                             *)
(***************************************************************************)
EXTENDS Integers, Sequences, FiniteSets, TLC

VARIABLES customer_orders, vip_customers, now,
          skipped_customers, skipped_orders, skipped_items,
          rows, pc, cust_idx, order_idx, item_idx, total_order_value,
          extractor, runs, report

vars == <<customer_orders, vip_customers, now,
          skipped_customers, skipped_orders, skipped_items,
          rows, pc, cust_idx, order_idx, item_idx, total_order_value,
          extractor, runs, report>>

----------------------------------------------------------------------------
(* Raw values *)

None == [t |-> "none", n |-> 0, s |-> <<>>]
Absent == [t |-> "absent", n |-> 0, s |-> <<>>]
Int_(k) == [t |-> "int", n |-> k, s |-> <<>>]
Float_(m) == [t |-> "float", n |-> m, s |-> <<>>]
NaNFloat == [t |-> "nan", n |-> 0, s |-> <<>>]
Str_(cs) == [t |-> "str", n |-> 0, s |-> cs]
ListVal == [t |-> "list", n |-> 0, s |-> <<>>]
Ts_(y) == [t |-> "ts", n |-> y, s |-> <<>>]

(* dict.get(key, default) *)
Get(v, default) == IF v.t = "absent" THEN default ELSE v

(* Results of the coercers: a value, Python None, NaN / NaT / NA, or an      *)
(* exception raised.                                                        *)
Val(v) == [k |-> "val", v |-> v]
RNone == [k |-> "none", v |-> 0]
RNaN == [k |-> "nan", v |-> 0]
Raise == [k |-> "raise", v |-> 0]

----------------------------------------------------------------------------
(* Text *)

DigitChars == <<"0", "1", "2", "3", "4", "5", "6", "7", "8", "9">>
LowerChars == <<"a", "b", "c", "d", "e", "f", "g", "h", "i", "j", "k", "l", "m",
                "n", "o", "p", "q", "r", "s", "t", "u", "v", "w", "x", "y", "z">>
UpperChars == <<"A", "B", "C", "D", "E", "F", "G", "H", "I", "J", "K", "L", "M",
                "N", "O", "P", "Q", "R", "S", "T", "U", "V", "W", "X", "Y", "Z">>

IsDigit(c) == \E i \in DOMAIN DigitChars : DigitChars[i] = c
DigitVal(c) == (CHOOSE i \in DOMAIN DigitChars : DigitChars[i] = c) - 1

AllDigits(cs) == \A i \in DOMAIN cs : IsDigit(cs[i])

RECURSIVE DigitsToInt(_)
DigitsToInt(cs) ==
  IF cs = <<>> THEN 0
  ELSE 10 * DigitsToInt(SubSeq(cs, 1, Len(cs) - 1)) + DigitVal(cs[Len(cs)])

(* str.upper() *)
UpperChar(c) ==
  IF \E i \in DOMAIN LowerChars : LowerChars[i] = c
  THEN UpperChars[CHOOSE i \in DOMAIN LowerChars : LowerChars[i] = c]
  ELSE c
Upper(cs) == [i \in DOMAIN cs |-> UpperChar(cs[i])]

(* str.replace(ch, '') *)
Remove(cs, ch) == SelectSeq(cs, LAMBDA c : c # ch)

(* str.strip() *)
RECURSIVE LStrip(_)
LStrip(cs) == IF cs # <<>> /\ Head(cs) = " " THEN LStrip(Tail(cs)) ELSE cs
RECURSIVE RStrip(_)
RStrip(cs) ==
  IF cs # <<>> /\ cs[Len(cs)] = " " THEN RStrip(SubSeq(cs, 1, Len(cs) - 1)) ELSE cs
Strip(cs) == RStrip(LStrip(cs))

(* re.search(r'\d+', value): the first run of digits, <<>> when none *)
RECURSIVE TakeDigits(_)
TakeDigits(cs) ==
  IF cs # <<>> /\ IsDigit(Head(cs)) THEN <<Head(cs)>> \o TakeDigits(Tail(cs)) ELSE <<>>
RECURSIVE FirstDigitRun(_)
FirstDigitRun(cs) ==
  IF cs = <<>> THEN <<>>
  ELSE IF IsDigit(Head(cs)) THEN TakeDigits(cs)
  ELSE FirstDigitRun(Tail(cs))

(* An optional sign in front of a text *)
Signed(cs) == cs # <<>> /\ Head(cs) \in {"+", "-"}
Unsigned(cs) == IF Signed(cs) THEN Tail(cs) ELSE cs
SignOf(cs) == IF cs # <<>> /\ Head(cs) = "-" THEN -1 ELSE 1

(* int(text): surrounding blanks, an optional sign, digits; else ValueError *)
IntOfText(cs) ==
  LET body == Unsigned(Strip(cs))
  IN IF body # <<>> /\ AllDigits(body)
     THEN Val(SignOf(Strip(cs)) * DigitsToInt(body))
     ELSE Raise

(* Position of the first "." of a text, 0 when none *)
DotAt(cs) ==
  IF \E i \in DOMAIN cs : cs[i] = "."
  THEN CHOOSE i \in DOMAIN cs : cs[i] = "." /\ \A j \in 1..(i - 1) : cs[j] # "."
  ELSE 0

(* The first three decimals of a fraction's digits, in thousandths *)
FracToThousandths(ds) ==
  LET d(i) == IF i <= Len(ds) THEN DigitVal(ds[i]) ELSE 0
  IN 100 * d(1) + 10 * d(2) + d(3)

(* float(text) for decimal literals: surrounding blanks, an optional sign,  *)
(* digits with an optional point; else ValueError.  The value is in         *)
(* thousandths.                                                             *)
FloatOfText(cs) ==
  LET body == Unsigned(Strip(cs))
      dot == DotAt(body)
      ip == IF dot = 0 THEN body ELSE SubSeq(body, 1, dot - 1)
      fp == IF dot = 0 THEN <<>> ELSE SubSeq(body, dot + 1, Len(body))
  IN IF AllDigits(ip) /\ AllDigits(fp) /\ Len(ip) + Len(fp) > 0
     THEN Val(SignOf(Strip(cs)) * (1000 * DigitsToInt(ip) + FracToThousandths(fp)))
     ELSE Raise

(* int(float): truncation toward zero of a value in thousandths *)
Trunc(m) == IF m >= 0 THEN m \div 1000 ELSE -((-m) \div 1000)

Abs(x) == IF x < 0 THEN -x ELSE x

(* round(a / b) to the nearest integer for b > 0, a tie going to the even   *)
(* neighbour                                                                *)
RoundDiv(a, b) ==
  LET q == a \div b
      r == a % b
  IN IF 2 * r < b THEN q
     ELSE IF 2 * r > b THEN q + 1
     ELSE IF q % 2 = 0 THEN q ELSE q + 1

(* round(x, 2) of a value in thousandths, in hundredths *)
Round2(m) == RoundDiv(m, 10)

----------------------------------------------------------------------------
(* Scalar coercers *)

SentinelWords == {<<"F", "R", "E", "E">>, <<>>,
                  <<"I", "N", "V", "A", "L", "I", "D">>, <<"N", "O", "N", "E">>}

(* extract_int_from_str: an int, None, or ValueError from int(nan) *)
extract_int_from_str(value) ==
  CASE value.t = "int" -> Val(value.n)
    [] value.t = "float" -> Val(Trunc(value.n))
    [] value.t = "nan" -> Raise
    [] value.t = "str" ->
         IF FirstDigitRun(value.s) # <<>>
         THEN Val(DigitsToInt(FirstDigitRun(value.s)))
         ELSE RNone
    [] OTHER -> RNone

(* parse_price: a float in thousandths, or NaN *)
parse_price(price) ==
  CASE price.t = "none" -> RNaN
    [] price.t = "int" -> Val(1000 * price.n)
    [] price.t = "float" -> Val(price.n)
    [] price.t = "nan" -> RNaN
    [] price.t = "str" ->
         LET price_clean == Strip(Remove(Remove(price.s, "$"), ","))
         IN IF Upper(price_clean) \in SentinelWords THEN Val(0)
            ELSE IF FloatOfText(price_clean).k = "val" THEN FloatOfText(price_clean)
            ELSE RNaN
    [] OTHER -> RNaN

(* parse_quantity: an int, NaN, or ValueError from int(nan) *)
parse_quantity(quantity) ==
  CASE quantity.t = "none" -> RNaN
    [] quantity.t = "int" -> Val(quantity.n)
    [] quantity.t = "float" -> Val(Trunc(quantity.n))
    [] quantity.t = "nan" -> Raise
    [] quantity.t = "str" ->
         LET quantity_clean == Upper(Strip(quantity.s))
         IN IF quantity_clean \in SentinelWords THEN Val(0)
            ELSE IF IntOfText(quantity_clean).k = "val" THEN IntOfText(quantity_clean)
            ELSE RNaN
    [] OTHER -> RNaN

(* int(x) of the row emission: an int, or ValueError / TypeError *)
IntOf(value) ==
  CASE value.t = "int" -> Val(value.n)
    [] value.t = "float" -> Val(Trunc(value.n))
    [] value.t = "str" -> IntOfText(value.s)
    [] OTHER -> Raise

(* str(x) of the row emission *)
RECURSIVE NatToText(_)
NatToText(k) ==
  IF k < 10 THEN <<DigitChars[k + 1]>>
  ELSE NatToText(k \div 10) \o <<DigitChars[(k % 10) + 1]>>
StrOf(value) ==
  CASE value.t = "str" -> value.s
    [] value.t = "int" ->
         IF value.n < 0 THEN <<"-">> \o NatToText(-value.n) ELSE NatToText(value.n)
    [] value.t = "none" -> <<"N", "o", "n", "e">>
    [] value.t = "nan" -> <<"n", "a", "n">>
    [] OTHER -> <<"?">>

(* CATEGORY_MAP.get(raw_category, 'Misc'): TypeError for an unhashable key *)
CATEGORY_MAP(code) ==
  CASE code = 1 -> "Electronics"
    [] code = 2 -> "Apparel"
    [] code = 3 -> "Books"
    [] code = 4 -> "Home Goods"
    [] OTHER -> "Misc"
CategoryOf(raw_category) ==
  CASE raw_category.t = "list" -> "raise"
    [] raw_category.t = "int" -> CATEGORY_MAP(raw_category.n)
    [] raw_category.t = "float" ->
         IF raw_category.n % 1000 = 0 THEN CATEGORY_MAP(raw_category.n \div 1000)
         ELSE "Misc"
    [] OTHER -> "Misc"

(* Date Sanitizer: pd.to_datetime under its try, then validate_date.  A     *)
(* timestamp is a year; NaT is RNaN.                                        *)
(* A raw date that parses is the type "ts"; an integer is nanoseconds after  *)
(* the epoch; any other text raises inside the try and becomes NaT.         *)
to_datetime(raw) ==
  CASE raw.t = "ts" -> Val(raw.n)
    [] raw.t = "int" -> Val(1970)
    [] OTHER -> RNaN
validate_date(dt, t_now) ==
  IF dt.k = "nan" THEN dt
  ELSE IF dt.v > t_now THEN RNaN
  ELSE IF dt.v < 1900 THEN RNaN
  ELSE dt

----------------------------------------------------------------------------
(* Source records.  The orders of a customer and the items of an order are  *)
(* a container [t, v]: a list ("list") of records, a value of another type  *)
(* ("other"), or an absent key ("absent").                                  *)

Customer(id, name, reg, orders) ==
  [id |-> id, name |-> name, registration_date |-> reg, orders |-> orders]
Order(oid, odate, items) == [order_id |-> oid, order_date |-> odate, items |-> items]
Item(iid, pname, cat, price, qty) ==
  [item_id |-> iid, product_name |-> pname, category |-> cat, price |-> price,
   quantity |-> qty]
ListOf(v) == [t |-> "list", v |-> v]
NotAList == [t |-> "other", v |-> <<>>]
AbsentList == [t |-> "absent", v |-> <<>>]

(* cust.get('orders', []) and order.get('items', []) *)
GetList(c) == IF c.t = "absent" THEN ListOf(<<>>) ELSE c

NA == [t |-> "NA", n |-> 0, s |-> <<>>]
NAText == "<NA>"

----------------------------------------------------------------------------
(* flatten_data: the locals of the current customer and order *)

CurCust == customer_orders[cust_idx]
cust_id == Get(CurCust.id, None)
cust_name == Get(CurCust.name, None)
reg_date == validate_date(to_datetime(Get(CurCust.registration_date, None)), now)
(* cust_id in self.vip_customers: TypeError for an unhashable id *)
IsVip(id) ==
  \/ id.t = "int" /\ id.n \in vip_customers
  \/ id.t = "float" /\ id.n % 1000 = 0 /\ (id.n \div 1000) \in vip_customers
orders == GetList(CurCust.orders)

CurOrder == orders.v[order_idx]
raw_order_id == Get(CurOrder.order_id, None)
order_id == extract_int_from_str(raw_order_id)
order_date == validate_date(to_datetime(Get(CurOrder.order_date, None)), now)
(* items, with a malformed items field treated as the empty list *)
ItemsOf(order) ==
  IF GetList(order.items).t = "list" THEN GetList(order.items).v ELSE <<>>
items == ItemsOf(CurOrder)

(* The first item loop: one entry of item_total_prices, in thousandths.  An *)
(* exception counts the item as 0.0; NaN * x and x * NaN are NaN and raise  *)
(* nothing.                                                                 *)
ItemTotalPrice(item) ==
  LET price == parse_price(Get(item.price, Float_(0)))
      quantity == parse_quantity(Get(item.quantity, Int_(0)))
  IN IF quantity.k = "raise" THEN Val(0)
     ELSE IF price.k = "nan" \/ quantity.k = "nan" THEN RNaN
     ELSE Val(price.v * quantity.v)

(* sum(item_total_prices): NaN once a NaN is added *)
RECURSIVE SumPrices(_)
SumPrices(its) ==
  IF its = <<>> THEN Val(0)
  ELSE LET rest == SumPrices(SubSeq(its, 1, Len(its) - 1))
           last == ItemTotalPrice(its[Len(its)])
       IN IF rest.k = "nan" \/ last.k = "nan" THEN RNaN ELSE Val(rest.v + last.v)

(* The zero-item row of an order; int(cust_id) may raise *)
PlaceholderRow ==
  [customer_id |-> IntOf(cust_id).v, customer_name |-> StrOf(cust_name),
   registration_date |-> reg_date, is_vip |-> IsVip(cust_id),
   order_id |-> order_id.v, order_date |-> order_date,
   product_id |-> RNaN, product_name |-> NA, category |-> NAText,
   unit_price |-> RNaN, item_quantity |-> RNaN, total_item_price |-> RNaN,
   total_order_value_percentage |-> RNaN]

(* Percentage with the test "total_order_value != 0" in place of "> 0" *)
Percentage_NonZeroTotal(total_item_price, total) ==
  IF total.k = "val" /\ total.v # 0
  THEN Val(RoundDiv((IF total.v < 0 THEN -10000 ELSE 10000) * total_item_price,
                    Abs(total.v)))
  ELSE RNaN

(* total_order_value_percentage of an item total (thousandths), rounded to  *)
(* two decimals, in hundredths of a percent                                 *)
Percentage(total_item_price, total) ==
  IF total.k = "val" /\ total.v > 0
  THEN Val(RoundDiv(10000 * total_item_price, total.v))
  ELSE RNaN

(* ItemRow with total_item_price computed from the rounded unit_price *)
ItemRow_TotalFromRounded(item, unit_price, item_quantity, total) ==
  [customer_id |-> IntOf(cust_id).v, customer_name |-> StrOf(cust_name),
   registration_date |-> reg_date, is_vip |-> IsVip(cust_id),
   order_id |-> order_id.v, order_date |-> order_date,
   product_id |-> Val(extract_int_from_str(Get(item.item_id, None)).v),
   product_name |-> Str_(StrOf(Get(item.product_name, None))),
   category |-> CategoryOf(Get(item.category, None)),
   unit_price |-> Val(Round2(unit_price)),
   item_quantity |-> Val(item_quantity),
   total_item_price |-> Val(Round2(10 * Round2(unit_price) * item_quantity)),
   total_order_value_percentage |-> Percentage(unit_price * item_quantity, total)]

(* The row of a valid item *)
ItemRow(item, unit_price, item_quantity, total) ==
  [customer_id |-> IntOf(cust_id).v, customer_name |-> StrOf(cust_name),
   registration_date |-> reg_date, is_vip |-> IsVip(cust_id),
   order_id |-> order_id.v, order_date |-> order_date,
   product_id |-> Val(extract_int_from_str(Get(item.item_id, None)).v),
   product_name |-> Str_(StrOf(Get(item.product_name, None))),
   category |-> CategoryOf(Get(item.category, None)),
   unit_price |-> Val(Round2(unit_price)),
   item_quantity |-> Val(item_quantity),
   total_item_price |-> Val(Round2(unit_price * item_quantity)),
   total_order_value_percentage |-> Percentage(unit_price * item_quantity, total)]

(* The second item loop on one item: "raise", "skip" or "row" *)
ItemOutcome(item) ==
  LET product_id == extract_int_from_str(Get(item.item_id, None))
      product_name == Get(item.product_name, None)
      unit_price == parse_price(Get(item.price, NaNFloat))
      item_quantity == parse_quantity(Get(item.quantity, NaNFloat))
  IN IF product_id.k = "raise" \/ item_quantity.k = "raise" THEN "raise"
     ELSE IF \/ product_id.k = "none" \/ product_name.t = "none"
             \/ unit_price.k = "nan" \/ item_quantity.k = "nan"
          THEN "skip"
     ELSE IF CategoryOf(Get(item.category, None)) = "raise" THEN "raise"
     ELSE IF IntOf(cust_id).k = "raise" THEN "raise"
     ELSE "row"

----------------------------------------------------------------------------
(* Table Assembler: df.sort_values(by = customer_id, order_id, product_id), *)
(* a stable sort with a null product_id last                                *)

RowLess(a, b) ==
  \/ a.customer_id < b.customer_id
  \/ /\ a.customer_id = b.customer_id
     /\ \/ a.order_id < b.order_id
        \/ /\ a.order_id = b.order_id
           /\ \/ a.product_id.k = "val" /\ b.product_id.k = "nan"
              \/ /\ a.product_id.k = "val" /\ b.product_id.k = "val"
                 /\ a.product_id.v < b.product_id.v

(* r put after the last row that does not come after it *)
RECURSIVE InsertRow(_, _)
InsertRow(sorted, r) ==
  IF sorted = <<>> THEN <<r>>
  ELSE IF RowLess(r, sorted[Len(sorted)])
       THEN Append(InsertRow(SubSeq(sorted, 1, Len(sorted) - 1), r), sorted[Len(sorted)])
       ELSE Append(sorted, r)
RECURSIVE SortRows(_)
SortRows(rs) ==
  IF rs = <<>> THEN <<>>
  ELSE InsertRow(SortRows(SubSeq(rs, 1, Len(rs) - 1)), rs[Len(rs)])

----------------------------------------------------------------------------
(* Inputs *)

MaxCust == 2
MaxOrders == 1
MaxItems == 2

SeqsUpTo(S, n) == UNION {[1..k -> S] : k \in 0..n}

Text_ORD9 == Str_(<<"O", "R", "D", "-", "9">>)
Text_P1 == Str_(<<"P", "-", "1">>)
Text_abc == Str_(<<"a", "b", "c">>)
Text_A == Str_(<<"A">>)
Text_Widget == Str_(<<"W", "i", "d", "g", "e", "t">>)
Text_price == Str_(<<" ", "$", "0", ",", "0", "1", "0", ".", "0", "0", "4">>)
Text_FREE == Str_(<<"F", "R", "E", "E">>)
Text_free == Str_(<<" ", "f", "r", "e", "e">>)

(* Items of every shape: identifier, price and quantity vary *)
ItemVals ==
  {Item(iid, Text_Widget, Int_(1), price, qty) :
     iid \in {Text_P1, None},
     price \in {Int_(10), Text_price, Text_FREE, None, Absent, Int_(-10)},
     qty \in {Int_(2), Text_free, None, Absent}}

(* One customer with one order that passes the customer and order checks    *)
ItemInputs ==
  {<<Customer(Int_(7), Text_A, Ts_(2020),
              ListOf(<<Order(Text_ORD9, Ts_(2021), its)>>))>> :
     its \in {NotAList} \cup {ListOf(v) : v \in SeqsUpTo(ItemVals, MaxItems)}}

(* Customers and orders of every shape, with few items *)
StructItems ==
  {NotAList, ListOf(<<>>),
   ListOf(<<Item(Text_P1, Text_Widget, Int_(99), Text_price, Int_(2))>>),
   ListOf(<<Item(Text_P1, None, Absent, Int_(10), Int_(1))>>)}
StructOrders ==
  {Order(oid, odate, its) :
     oid \in {Text_ORD9, None}, odate \in {Ts_(2021), None}, its \in StructItems}
StructCustomers ==
  {Customer(id, name, Ts_(2020), os) :
     id \in {Int_(7), None, Text_abc}, name \in {Text_A, None},
     os \in {NotAList} \cup {ListOf(v) : v \in SeqsUpTo(StructOrders, MaxOrders)}}
StructInputs == SeqsUpTo(StructCustomers, MaxCust)

----------------------------------------------------------------------------
(* __init__, load_vip_customers, load_customer_orders *)

(* No report written yet *)
NoReport == [k |-> "none"]
(* df['product_id'] of the column-less frame of an empty table: KeyError *)
ReportRaised == [k |-> "raise"]

InitWith(inputs) ==
  /\ customer_orders \in inputs
  /\ vip_customers = {7}
  /\ now = 2026
  /\ skipped_customers = <<>>
  /\ skipped_orders = <<>>
  /\ skipped_items = <<>>
  /\ rows = <<>>
  /\ pc = "idle"
  /\ cust_idx = 0
  /\ order_idx = 0
  /\ item_idx = 0
  /\ total_order_value = Val(0)
  /\ extractor = 1
  /\ runs = <<>>
  /\ report = NoReport

Init == InitWith(ItemInputs)
InitStruct == InitWith(StructInputs)

(* A second extractor on the same two files *)
NewExtractor ==
  /\ pc = "returned"
  /\ Len(runs) < 2
  /\ skipped_customers' = <<>>
  /\ skipped_orders' = <<>>
  /\ skipped_items' = <<>>
  /\ extractor' = extractor + 1
  /\ pc' = "idle"
  /\ UNCHANGED <<customer_orders, vip_customers, now, rows, cust_idx, order_idx,
                 item_idx, total_order_value, runs, report>>

----------------------------------------------------------------------------
(* flatten_data *)

(* rows = [] and the first iteration of the customer loop *)
FlattenStart ==
  /\ pc \in {"idle", "returned"}
  /\ Len(runs) < 2
  /\ rows' = <<>>
  /\ pc' = "cust"
  /\ cust_idx' = 1
  /\ order_idx' = 0
  /\ item_idx' = 0
  /\ UNCHANGED <<customer_orders, vip_customers, now, skipped_customers,
                 skipped_orders, skipped_items, total_order_value, extractor, runs,
                 report>>

(* Where the loops stand once the current order is done *)
AfterOrder ==
  IF order_idx < Len(orders.v)
  THEN [pc |-> "order", cust_idx |-> cust_idx, order_idx |-> order_idx + 1]
  ELSE [pc |-> "cust", cust_idx |-> cust_idx + 1, order_idx |-> 0]

(* What the head of the customer loop does with the customer *)
CustomerOutcome ==
  IF cust_id.t = "none" THEN "Missing customer ID"
  ELSE IF cust_name.t = "none" \/ Get(CurCust.registration_date, None).t = "none"
       THEN "Missing name or registration_date"
  ELSE IF cust_id.t = "list" THEN "raise"
  ELSE IF orders.t # "list" THEN "Malformed orders field"
  ELSE "orders"

(* One customer, up to its order loop *)
CustomerStep ==
  /\ pc = "cust"
  /\ cust_idx <= Len(customer_orders)
  /\ skipped_customers' =
       IF CustomerOutcome \in {"raise", "orders"} THEN skipped_customers
       ELSE Append(skipped_customers,
                   [customer_id |-> cust_id, reason |-> CustomerOutcome])
  /\ pc' = IF CustomerOutcome = "raise" THEN "raised"
           ELSE IF CustomerOutcome = "orders" /\ orders.v # <<>> THEN "order"
           ELSE "cust"
  /\ cust_idx' = IF CustomerOutcome = "raise" \/ pc' = "order" THEN cust_idx
                 ELSE cust_idx + 1
  /\ order_idx' = IF pc' = "order" THEN 1 ELSE 0
  /\ UNCHANGED <<customer_orders, vip_customers, now, skipped_orders, skipped_items,
                 rows, item_idx, total_order_value, extractor, runs, report>>

(* What the head of the order loop does with the order *)
OrderOutcome ==
  IF order_id.k = "raise" THEN "raise"
  ELSE IF order_id.k = "none" \/ Get(CurOrder.order_date, None).t = "none" THEN "skip"
  ELSE IF items # <<>> THEN "items"
  ELSE IF IntOf(cust_id).k = "raise" THEN "raise"
  ELSE "placeholder"

(* One order, up to its item loop: the order checks, total_order_value and  *)
(* the zero-item row                                                        *)
OrderStep ==
  /\ pc = "order"
  /\ skipped_orders' =
       IF OrderOutcome = "skip"
       THEN Append(skipped_orders,
                   [customer_id |-> cust_id, order_raw_id |-> raw_order_id,
                    reason |-> "Missing or invalid order_id or order_date"])
       ELSE skipped_orders
  /\ total_order_value' =
       IF OrderOutcome \in {"items", "placeholder"} \/
          (OrderOutcome = "raise" /\ order_id.k # "raise")
       THEN SumPrices(items)
       ELSE total_order_value
  /\ rows' = IF OrderOutcome = "placeholder" THEN Append(rows, PlaceholderRow) ELSE rows
  /\ pc' = CASE OrderOutcome = "raise" -> "raised"
             [] OrderOutcome = "items" -> "item"
             [] OTHER -> AfterOrder.pc
  /\ cust_idx' = IF pc' \in {"raised", "item"} THEN cust_idx ELSE AfterOrder.cust_idx
  /\ order_idx' = IF pc' \in {"raised", "item"} THEN order_idx ELSE AfterOrder.order_idx
  /\ item_idx' = IF pc' = "item" THEN 1 ELSE 0
  /\ UNCHANGED <<customer_orders, vip_customers, now, skipped_customers, skipped_items,
                 extractor, runs, report>>

(* EmittedRows with a placeholder row for an item that is skipped *)
EmittedRows_PlaceholderForSkipped(item) ==
  IF ItemOutcome(item) = "row"
  THEN <<ItemRow(item, parse_price(Get(item.price, NaNFloat)).v,
                 parse_quantity(Get(item.quantity, NaNFloat)).v, total_order_value)>>
  ELSE IF ItemOutcome(item) = "skip" THEN <<PlaceholderRow>>
  ELSE <<>>

(* The rows the second item loop appends for one item *)
EmittedRows(item) ==
  IF ItemOutcome(item) = "row"
  THEN <<ItemRow(item, parse_price(Get(item.price, NaNFloat)).v,
                 parse_quantity(Get(item.quantity, NaNFloat)).v, total_order_value)>>
  ELSE <<>>

(* One item of the second item loop *)
ItemStep ==
  /\ pc = "item"
  /\ LET item == items[item_idx]
         outcome == ItemOutcome(item)
         last == item_idx = Len(items)
     IN /\ skipped_items' =
             IF outcome = "skip"
             THEN Append(skipped_items,
                         [customer_id |-> cust_id, order_id |-> order_id.v,
                          item_raw_id |-> Get(item.item_id, None),
                          reason |-> "Missing critical item info"])
             ELSE skipped_items
        /\ rows' = rows \o EmittedRows(item)
        /\ pc' = IF outcome = "raise" THEN "raised"
                 ELSE IF last THEN AfterOrder.pc ELSE "item"
        /\ cust_idx' = IF pc' = "cust" THEN AfterOrder.cust_idx ELSE cust_idx
        /\ order_idx' = IF pc' \in {"cust", "order"} THEN AfterOrder.order_idx
                        ELSE order_idx
        /\ item_idx' = IF pc' = "item" THEN item_idx + 1
                       ELSE IF pc' = "raised" THEN item_idx ELSE 0
  /\ UNCHANGED <<customer_orders, vip_customers, now, skipped_customers,
                 skipped_orders, total_order_value, extractor, runs,
                 report>>

(* The end of the customer loop: the table is assembled and returned.  The  *)
(* caller keeps it with the skip counts it can read off the extractor.      *)
FlattenReturn ==
  /\ pc = "cust"
  /\ cust_idx > Len(customer_orders)
  /\ runs' = Append(runs,
                    [table |-> SortRows(rows),
                     skipped |-> <<Len(skipped_customers), Len(skipped_orders),
                                   Len(skipped_items)>>,
                     extractor |-> extractor])
  /\ pc' = "returned"
  /\ UNCHANGED <<customer_orders, vip_customers, now, skipped_customers,
                 skipped_orders, skipped_items, rows, cust_idx, order_idx, item_idx,
                 total_order_value, extractor, report>>

----------------------------------------------------------------------------
(* generate_summary_report *)

(* A customer id as a set element: 7 and 7.0 are the same element *)
IdKey(id) ==
  IF id.t = "float" /\ id.n % 1000 = 0 THEN Int_(id.n \div 1000) ELSE id

(* len({cust.get('id') ... if cust.get('id') is not None}) *)
ReportTotalCustomers ==
  Cardinality({IdKey(Get(customer_orders[i].id, None)) :
                 i \in {j \in DOMAIN customer_orders :
                          Get(customer_orders[j].id, None).t # "none"}})

(* sum(len(cust.get('orders', [])) for cust in self.customer_orders         *)
(*     if isinstance(cust.get('orders', []), list))                         *)
RECURSIVE ReportTotalOrders(_)
ReportTotalOrders(custs) ==
  IF custs = <<>> THEN 0
  ELSE (IF GetList(Head(custs).orders).t = "list"
        THEN Len(GetList(Head(custs).orders).v) ELSE 0)
       + ReportTotalOrders(Tail(custs))

(* df['product_id'].isna().sum() *)
ZeroItemOrders(df) == Cardinality({i \in DOMAIN df : df[i].product_id.k = "nan"})

(* df['category'].value_counts(dropna=False), and the same normalised, in   *)
(* hundredths of a percent                                                  *)
CategoryCounts(df) ==
  [c \in {df[i].category : i \in DOMAIN df} |->
     Cardinality({i \in DOMAIN df : df[i].category = c})]
CategoryPercent(df) ==
  [c \in DOMAIN CategoryCounts(df) |->
     RoundDiv(10000 * CategoryCounts(df)[c], Len(df))]

(* The lines of the report for the table df *)
ReportOf(df) ==
  IF df = <<>> \/ \E i \in DOMAIN customer_orders :
                     Get(customer_orders[i].id, None).t = "list"
  THEN ReportRaised
  ELSE [k |-> "report",
        total_customers |-> ReportTotalCustomers,
        skipped_customers |-> Len(skipped_customers),
        total_orders |-> ReportTotalOrders(customer_orders),
        skipped_orders |-> Len(skipped_orders),
        total_items |-> Len(df) - ZeroItemOrders(df),
        skipped_items |-> Len(skipped_items),
        num_vips |-> Cardinality(vip_customers),
        zero_item_orders |-> ZeroItemOrders(df),
        category_counts |-> CategoryCounts(df),
        category_percent |-> CategoryPercent(df)]

(* generate_summary_report(df) on the table flatten_data has just returned  *)
GenerateSummaryReport ==
  /\ pc = "returned"
  /\ report' = ReportOf(SortRows(rows))
  /\ UNCHANGED <<customer_orders, vip_customers, now, skipped_customers,
                 skipped_orders, skipped_items, rows, pc, cust_idx, order_idx,
                 item_idx, total_order_value, extractor, runs>>

Next == NewExtractor \/ FlattenStart \/ CustomerStep \/ OrderStep \/ ItemStep
        \/ FlattenReturn \/ GenerateSummaryReport

Spec == Init /\ [][Next]_vars
SpecStruct == InitStruct /\ [][Next]_vars

----------------------------------------------------------------------------
(* Properties *)

(* The rows of a row list that carry the current order's keys *)
OrderRows(rs) ==
  SelectSeq(rs, LAMBDA r : r.customer_id = IntOf(cust_id).v /\ r.order_id = order_id.v)
IsPlaceholder(r) == r.product_id.k = "nan"
RECURSIVE SumPercentages(_)
SumPercentages(rs) ==
  IF rs = <<>> THEN 0
  ELSE SumPercentages(Tail(rs))
       + (IF Head(rs).total_order_value_percentage.k = "val"
          THEN Head(rs).total_order_value_percentage.v ELSE 0)
(* The step that ends the item loop of the current order without raising *)
LastItemStep == pc = "item" /\ item_idx = Len(items) /\ pc' # "raised"

(* C1: flatten_data never raises during traversal, whatever the types of    *)
(* the fields                                                               *)
C1_NeverRaises == pc # "raised"

(* C2: every item of an order that passed the order checks yields exactly   *)
(* one row when its product id, name, price and quantity all resolve, and   *)
(* exactly one item-level skip record and no row otherwise                  *)
C2_Resolves(item) ==
  /\ extract_int_from_str(Get(item.item_id, None)).k = "val"
  /\ Get(item.product_name, None).t # "none"
  /\ parse_price(Get(item.price, None)).k = "val"
  /\ parse_quantity(Get(item.quantity, None)).k = "val"
C2_ItemAccounting ==
  [][pc = "item" =>
       IF C2_Resolves(items[item_idx])
       THEN Len(rows') = Len(rows) + 1 /\ skipped_items' = skipped_items
       ELSE rows' = rows /\ Len(skipped_items') = Len(skipped_items) + 1]_vars

(* C3: when an order's total_order_value is > 0, the percentages of the     *)
(* rows emitted for it sum to 100 within 0.01 per item, whichever items     *)
(* were skipped                                                             *)
C3_PercentagesSumTo100 ==
  [][(LastItemStep /\ total_order_value.k = "val" /\ total_order_value.v > 0)
       => Abs(SumPercentages(OrderRows(rows')) - 10000) <= Len(items)]_vars

(* C4 as stated: every item row's total_item_price is                       *)
(* round(unit_price * item_quantity, 2) of the emitted unit_price           *)
C4_TotalFromEmittedPrice ==
  \A i \in DOMAIN rows :
    ~IsPlaceholder(rows[i]) =>
      rows[i].total_item_price.v
        = Round2(10 * rows[i].unit_price.v * rows[i].item_quantity.v)

(* C4 as amended: an item row's total_item_price is round(p * quantity, 2)  *)
(* of the coerced price p before its own rounding; it is                    *)
(* round(unit_price * item_quantity, 2) when p has at most two decimals and *)
(* otherwise within 0.005 * (|item_quantity| + 1) of it                     *)
C4_TotalFromCoercedPrice ==
  [][(pc = "item" /\ Len(rows') = Len(rows) + 1) =>
       LET r == rows'[Len(rows')]
           p == parse_price(items[item_idx].price).v
           q == parse_quantity(items[item_idx].quantity).v
           fromEmitted == r.unit_price.v * r.item_quantity.v
       IN /\ r.item_quantity.v = q
          /\ r.total_item_price.v = Round2(p * q)
          /\ (p % 10 = 0 => r.total_item_price.v = fromEmitted)
          /\ 2 * Abs(r.total_item_price.v - fromEmitted) <= Abs(q) + 1]_vars
(* C4: a row whose price had more than two decimals *)
C4_Witness ==
  \E i \in DOMAIN rows :
    /\ ~IsPlaceholder(rows[i])
    /\ rows[i].total_item_price.v # rows[i].unit_price.v * rows[i].item_quantity.v

(* C5: a row of an order whose total_order_value is 0 has a null            *)
(* percentage; a percentage is non-null only when total_order_value > 0,    *)
(* and is then total_item_price / total_order_value * 100 (to two decimals) *)
C5_PercentageBranch ==
  [][(pc = "item" /\ Len(rows') = Len(rows) + 1) =>
       LET r == rows'[Len(rows')]
           p == parse_price(items[item_idx].price).v
           q == parse_quantity(items[item_idx].quantity).v
           pct == r.total_order_value_percentage
       IN /\ (total_order_value = Val(0) => pct.k = "nan")
          /\ (pct.k = "val" =>
                /\ total_order_value.k = "val"
                /\ total_order_value.v > 0
                /\ pct.v = RoundDiv(100 * 100 * p * q, total_order_value.v))]_vars
(* C5: an item row of an order whose total_order_value is 0 *)
C5_Witness ==
  /\ pc = "returned"
  /\ total_order_value = Val(0)
  /\ \E i \in DOMAIN rows :
       ~IsPlaceholder(rows[i]) /\ rows[i].total_order_value_percentage.k = "nan"
  /\ Len(runs) = 1

(* C6: a sentinel price or quantity is numeric zero and the item, its id,   *)
(* name and other number resolving, gets a row holding 0; a None, absent or *)
(* unparsable price or quantity is missing and the item gets a skip record  *)
(* and no row                                                               *)
C6_IsSentinel(v) == v.t = "str" /\ Upper(Strip(Remove(Remove(v.s, "$"), ","))) \in SentinelWords
C6_IsMissing(v) ==
  \/ v.t \in {"none", "absent"}
  \/ v.t = "str" /\ ~C6_IsSentinel(v) /\ FloatOfText(Strip(Remove(Remove(v.s, "$"), ","))).k # "val"
C6_ZeroAndMissing ==
  [][pc = "item" =>
       LET item == items[item_idx]
       IN /\ (C6_IsMissing(item.price) \/ C6_IsMissing(item.quantity)) =>
               rows' = rows /\ Len(skipped_items') = Len(skipped_items) + 1
          /\ (C6_IsSentinel(item.price) /\ C2_Resolves(item)) =>
               /\ Len(rows') = Len(rows) + 1
               /\ rows'[Len(rows')].unit_price = Val(0)
          /\ (C6_IsSentinel(item.quantity) /\ C2_Resolves(item)) =>
               /\ Len(rows') = Len(rows) + 1
               /\ rows'[Len(rows')].item_quantity = Val(0)]_vars

(* C7: an order that passed the order checks and has no items (an empty or  *)
(* malformed items field) adds exactly one row, its item columns null and   *)
(* its customer and order columns set, and adds no skip record              *)
C7_PassesOrderChecks ==
  order_id.k = "val" /\ Get(CurOrder.order_date, None).t # "none"
C7_ZeroItemOrder ==
  [][(pc = "order" /\ C7_PassesOrderChecks /\ items = <<>>) =>
       /\ Len(rows') = Len(rows) + 1
       /\ LET r == rows'[Len(rows')]
          IN /\ IsPlaceholder(r)
             /\ r.product_name = NA /\ r.category = NAText
             /\ r.unit_price = RNaN /\ r.item_quantity = RNaN
             /\ r.total_item_price = RNaN
             /\ r.total_order_value_percentage = RNaN
             /\ r.order_id = order_id.v
       /\ skipped_customers' = skipped_customers
       /\ skipped_orders' = skipped_orders
       /\ skipped_items' = skipped_items]_vars

(* C8: a second run on the same inputs returns the same table and the same  *)
(* skip counts, on a fresh extractor or on the same one                     *)
C8_Idempotent ==
  Len(runs) = 2 =>
    runs[1].table = runs[2].table /\ runs[1].skipped = runs[2].skipped

(* C9: total_order_value is the sum of price * quantity over the items, an  *)
(* item whose price or quantity does not coerce adding exactly 0            *)
RECURSIVE C9_SumCoerced(_)
C9_SumCoerced(its) ==
  IF its = <<>> THEN 0
  ELSE LET p == parse_price(Get(Head(its).price, None))
           q == parse_quantity(Get(Head(its).quantity, None))
       IN (IF p.k = "val" /\ q.k = "val" THEN p.v * q.v ELSE 0)
          + C9_SumCoerced(Tail(its))
C9_TotalCountsFailuresAsZero ==
  pc = "item" => total_order_value = Val(C9_SumCoerced(items))

(* C10 as stated: every order that passed the order checks contributes at   *)
(* least one row, a placeholder row when all its items were skipped         *)
C10_AtLeastOneRow == [][LastItemStep => OrderRows(rows') # <<>>]_vars

(* C10 as amended: a placeholder row is emitted only for an order whose     *)
(* items list is empty or not a list; an order with items contributes rows  *)
(* for its valid items only, hence no row when every item is skipped        *)
C10_PlaceholderOnlyForNoItems ==
  [][/\ (\E i \in (Len(rows) + 1)..Len(rows') : IsPlaceholder(rows'[i])) =>
          (pc = "order" /\ items = <<>>)
     /\ (pc = "order" /\ items # <<>>) => rows' = rows
     /\ (pc = "item" /\ ~C2_Resolves(items[item_idx])) => rows' = rows]_vars
(* C10: an order whose items were all skipped has returned no row *)
C10_Witness ==
  /\ pc = "returned"
  /\ Len(runs) = 1
  /\ runs[1].table = <<>>
  /\ customer_orders[1].orders.v[1].items.v # <<>>
  /\ Len(skipped_items) = Len(customer_orders[1].orders.v[1].items.v)

(* C11: 'Total orders processed' is the sum of the order-list lengths over  *)
(* exactly the customers not skipped at the customer level: a customer      *)
(* skipped for a missing id, name or registration date, or for a malformed  *)
(* orders field, contributes 0, and a customer whose orders were skipped at *)
(* the order level contributes all of them                                  *)
C11_SkippedAtCustomerLevel(cust) ==
  \/ Get(cust.id, None).t = "none"
  \/ Get(cust.name, None).t = "none"
  \/ Get(cust.registration_date, None).t = "none"
  \/ GetList(cust.orders).t # "list"
RECURSIVE C11_OrdersOfKeptCustomers(_)
C11_OrdersOfKeptCustomers(custs) ==
  IF custs = <<>> THEN 0
  ELSE (IF C11_SkippedAtCustomerLevel(Head(custs)) THEN 0
        ELSE Len(GetList(Head(custs).orders).v))
       + C11_OrdersOfKeptCustomers(Tail(custs))
C11_TotalOrdersOfKeptCustomers ==
  report.k = "report" =>
    report.total_orders = C11_OrdersOfKeptCustomers(customer_orders)

====
